---------------------------- MODULE Spec2Model ----------------------------
(***************************************************************************)
(* A model of rust-magic (src/src/lib.rs): the CookieFlags bitmask, the    *)
(* Cookie handle that owns one libmagic engine instance, its query,        *)
(* database and error operations, and its Drop.                            *)
(*                                                                         *)
(* The wrapper's own code (flag constants, Cookie::open, file, buffer,     *)
(* error, setflags, check, compile, list, load, Drop) is translated from   *)
(* the source.  libmagic itself is an external library that the source     *)
(* only declares (extern "C", lines 103-116); its entry points are         *)
(* modelled from the interface description of the specification and are    *)
(* the definitions named magic_*, QueryOutcomes, DbStatuses and the        *)
(* texts they produce.                                                     *)
(***************************************************************************)
EXTENDS Integers, Sequences, FiniteSets, TLC

(***************************************************************************)
(* Bounds of the model.                                                    *)
(***************************************************************************)
\* number of Cookie variables the caller has (slots that may hold a Handle)
MaxHandles == 2
\* number of distinct addresses the engine's allocator can hand out
MaxAddrs == 2

Slots == 1 .. MaxHandles
Addrs == 1 .. MaxAddrs

(***************************************************************************)
(* c_int bit arithmetic.                                                   *)
(***************************************************************************)
\* the set of bit positions set in the non-negative c_int n
RECURSIVE BitsFrom(_, _)
BitsFrom(n, i) ==
    IF n = 0 THEN {}
    ELSE (IF n % 2 = 1 THEN {i} ELSE {}) \cup BitsFrom(n \div 2, i + 1)
BitsOf(n) == BitsFrom(n, 0)

\* bitwise or, as `|` of bitflags computes it on the underlying c_int
RECURSIVE BitOr(_, _)
BitOr(a, b) ==
    IF a = 0 THEN b
    ELSE IF b = 0 THEN a
    ELSE (IF a % 2 = 1 \/ b % 2 = 1 THEN 1 ELSE 0)
         + 2 * BitOr(a \div 2, b \div 2)

\* bitwise and
RECURSIVE BitAnd(_, _)
BitAnd(a, b) ==
    IF a = 0 \/ b = 0 THEN 0
    ELSE (IF a % 2 = 1 /\ b % 2 = 1 THEN 1 ELSE 0)
         + 2 * BitAnd(a \div 2, b \div 2)

\* CookieFlags::contains
Contains(flags, f) == BitAnd(flags, f) = f

(***************************************************************************)
(* flags::CookieFlags (values in decimal; the source writes them in hex).  *)
(***************************************************************************)
NONE == 0
DEBUG == 1
SYMLINK == 2
COMPRESS == 4
DEVICES == 8
MIME_TYPE == 16
CONTINUE == 32
CHECK == 64
PRESERVE_ATIME == 128
RAW == 256
ERROR == 512
MIME_ENCODING == 1024
APPLE == 2048
NO_CHECK_COMPRESS == 4096
NO_CHECK_TAR == 8192
NO_CHECK_SOFT == 16384
NO_CHECK_APPTYPE == 32768
NO_CHECK_ELF == 65536
NO_CHECK_TEXT == 131072
NO_CHECK_CDF == 262144
NO_CHECK_TOKENS == 1048576
NO_CHECK_ENCODING == 2097152

MIME == BitOr(MIME_TYPE, MIME_ENCODING)

NO_CHECK_BUILTIN_with_soft ==
    BitOr(NO_CHECK_COMPRESS, BitOr(NO_CHECK_TAR, BitOr(NO_CHECK_SOFT,
    BitOr(NO_CHECK_APPTYPE, BitOr(NO_CHECK_ELF, BitOr(NO_CHECK_TEXT,
    BitOr(NO_CHECK_CDF, BitOr(NO_CHECK_TOKENS, NO_CHECK_ENCODING))))))))
NO_CHECK_BUILTIN ==
    BitOr(NO_CHECK_COMPRESS, BitOr(NO_CHECK_TAR, BitOr(NO_CHECK_APPTYPE,
    BitOr(NO_CHECK_ELF, BitOr(NO_CHECK_TEXT, BitOr(NO_CHECK_CDF,
    BitOr(NO_CHECK_TOKENS, BitOr(NO_CHECK_ENCODING, 0))))))))

(***************************************************************************)
(* Data crossing the C boundary.                                           *)
(***************************************************************************)
\* a text is a sequence of words; the empty text is the empty C string
NoText == <<>>
\* what a read through a pointer into a closed engine yields
Dangling == <<"dangling">>

\* *const c_char: a pointer into one of an engine's two transient buffers
NULL == [addr |-> 0, buf |-> "null"]
Ptr(a, b) == [addr |-> a, buf |-> b]

\* inputs of the operations
GoodPath == "assets/rust-logo-128x128-blk.png"
MissingPath == "non-existent_file.txt"
Paths == {GoodPath, MissingPath}
Buffers == {"#!/usr/bin/env python"}
GoodDb == "/usr/share/misc/magic"
BadDb == "no-such.magic"
DbPaths == {GoodDb, BadDb}
FlagInputs == {NONE, ERROR, MIME_TYPE, MIME, NO_CHECK_BUILTIN}

\* whether the file system has the path
Exists(p) == p = GoodPath

(***************************************************************************)
(* The detection engine (libmagic), one instance per address.              *)
(***************************************************************************)
\* struct magic_set as far as the interface shows it: the active flags,
\* whether a database is loaded, the pending diagnostic (NoText: none) and
\* the result buffer
NewEngine(flags) ==
    [flags |-> flags, db |-> FALSE, diag |-> NoText, out |-> NoText]
DeadEngine == NewEngine(0)

\* output mode selected by the flags
Mode(flags) ==
    IF Contains(flags, MIME) THEN "mime"
    ELSE IF Contains(flags, MIME_TYPE) THEN "mime-type"
    ELSE IF Contains(flags, MIME_ENCODING) THEN "mime-encoding"
    ELSE "text"

\* the description the engine produces for an input under flags
Describe(input, flags) == <<"desc", input, Mode(flags)>>
\* the diagnostics the engine produces
CannotStat(p) == <<"cannot stat", p, "(No such file or directory)">>
NoMagic == <<"no magic files loaded">>
DbError(p) == <<"could not find any valid magic files!", p>>

\* the outcomes the engine may produce for a query: a description, nothing
\* notable, or a failure with its diagnostic
QueryOutcomes(e, input, isPath) ==
    IF ~e.db
    THEN {[kind |-> "NoMatch", text |-> NoText],
          [kind |-> "Error", text |-> NoMagic]}
    ELSE IF isPath /\ ~Exists(input)
    THEN IF Contains(e.flags, ERROR)
         THEN {[kind |-> "Error", text |-> CannotStat(input)]}
         ELSE {[kind |-> "NoMatch", text |-> NoText]}
    ELSE {[kind |-> "Description", text |-> Describe(input, e.flags)]}

\* a query entry point: the result buffer is rewritten, a failure leaves its
\* diagnostic pending, a success keeps or drops an older one (keep), and the
\* call returns a pointer to the result buffer or null
magic_query(e, a, o, keep) ==
    [eng |-> [e EXCEPT !.out = IF o.kind = "Description" THEN o.text ELSE NoText,
                       !.diag = IF o.kind = "Error" THEN o.text
                                ELSE IF keep THEN e.diag ELSE NoText],
     ptr |-> IF o.kind = "Description" THEN Ptr(a, "out") ELSE NULL]
magic_file(e, a, filename, o, keep) == magic_query(e, a, o, keep)
magic_buffer(e, a, buffer, o, keep) == magic_query(e, a, o, keep)

\* the diagnostic entry point reads only
magic_error(e, a) == IF e.diag # NoText THEN Ptr(a, "diag") ELSE NULL

\* the configuration entry point stores the flags
magic_setflags(e, flags) == [e EXCEPT !.flags = flags]

\* status codes of the database entry points for a path: 0 for success
DbStatuses(p) == IF p = GoodDb THEN {0} ELSE {-1, 1}

\* a database entry point: the result buffer is reset; a failure leaves its
\* diagnostic pending; db is the loaded-database state afterwards
magic_db(e, filename, st, keep, db) ==
    [e EXCEPT !.out = NoText,
              !.diag = IF st # 0 THEN DbError(filename)
                       ELSE IF keep THEN e.diag ELSE NoText,
              !.db = db]
\* load replaces the database on success; a failed load keeps the old one or
\* leaves none (keepdb)
magic_load(e, filename, st, keep, keepdb) ==
    magic_db(e, filename, st, keep, IF st = 0 THEN TRUE ELSE e.db /\ keepdb)
magic_check(e, filename, st, keep) == magic_db(e, filename, st, keep, e.db)
magic_compile(e, filename, st, keep) == magic_db(e, filename, st, keep, e.db)
magic_list(e, filename, st, keep) == magic_db(e, filename, st, keep, e.db)

\* reading the C string a pointer refers to, in memory mem with live engines lv
Deref(mem, lv, p) ==
    IF p.addr \notin lv THEN Dangling
    ELSE IF p.buf = "out" THEN mem[p.addr].out
    ELSE mem[p.addr].diag

(***************************************************************************)
(* Rust values of the wrapper.                                             *)
(***************************************************************************)
\* a String: it owns its text, or (never in the source) borrows an engine buffer
Owned(t) == [kind |-> "owned", text |-> t, ptr |-> NULL]
Borrowed(p) == [kind |-> "borrowed", text |-> NoText, ptr |-> p]
StrValue(mem, lv, s) ==
    IF s.kind = "owned" THEN s.text ELSE Deref(mem, lv, s.ptr)

\* Option<String>
None == [some |-> FALSE, s |-> Owned(NoText)]
Some(s) == [some |-> TRUE, s |-> s]

\* Option<Cookie>; a slot without a Cookie holds NoCookie
NoCookie == [some |-> FALSE, cookie |-> 0]
Cookie(c) == [some |-> TRUE, cookie |-> c]

\* string::raw::from_buf: copies the C string into a new String
from_buf_borrow(mem, lv, p) == Borrowed(p)
from_buf(mem, lv, p) == Owned(Deref(mem, lv, p))

\* the tail of file, buffer and error: null becomes None
file_result_empty(mem, lv, s) ==
    IF s = NULL THEN Some(Owned(NoText)) ELSE Some(from_buf(mem, lv, s))
file_result(mem, lv, s) ==
    IF s = NULL THEN None ELSE Some(from_buf(mem, lv, s))
buffer_result_empty(mem, lv, s) ==
    IF s = NULL THEN Some(Owned(NoText)) ELSE Some(from_buf(mem, lv, s))
buffer_result(mem, lv, s) ==
    IF s = NULL THEN None ELSE Some(from_buf(mem, lv, s))
error_result_empty(mem, lv, s) ==
    IF s = NULL THEN Some(Owned(NoText)) ELSE Some(from_buf(mem, lv, s))
error_result(mem, lv, s) ==
    IF s = NULL THEN None ELSE Some(from_buf(mem, lv, s))

\* the flags open hands to magic_open
open_flags_as_given(flags) == flags
open_flags(flags) == BitOr(flags, ERROR)
\* the tail of open: null becomes None
open_result(c) == IF c = 0 THEN NoCookie ELSE Cookie(c)

\* the flags setflags hands to magic_setflags
setflags_flags_forced(flags) == BitOr(flags, ERROR)
setflags_flags(flags) == flags

\* the boolean of the database operations
load_result_nonneg(rc) == rc >= 0
load_result(rc) == rc = 0
check_result(rc) == rc = 0
compile_result(rc) == rc = 0
list_result(rc) == rc = 0

\* the magic_close calls Drop makes for a Cookie
drop_calls_none(c) == <<>>
drop_calls(c) == <<c>>

(***************************************************************************)
(* State.                                                                  *)
(***************************************************************************)
VARIABLES
    handles,    \* per slot: the Cookie the caller holds there, or NoCookie
    engine,     \* per address: the engine instance's state
    live,       \* the addresses of the engine instances not yet closed
    badClose,   \* magic_close was called on null or on a closed instance
    want,       \* per slot: the flags of the caller's latest open or setflags
    clean,      \* per slot: no operation has failed since open
    last,       \* the latest operation: what it was given and what it returned
    kept,       \* a String the caller still holds from an earlier call
    noneKinds   \* the engine outcomes of the queries that returned None

vars == <<handles, engine, live, badClose, want, clean, last,
          kept, noneKinds>>

NoWant == [by |-> "none", flags |-> 0]
NoKept == [held |-> FALSE, s |-> Owned(NoText), orig |-> NoText, src |-> NULL]

\* the record of an operation; the fields an operation does not have are blank
Op(op, h) ==
    [op |-> op, h |-> h, flags |-> 0, input |-> "", val |-> None, ok |-> TRUE,
     status |-> 0, kind |-> "", under |-> 0, want |-> NoWant]

Init ==
    /\ handles = [h \in Slots |-> NoCookie]
    /\ engine = [a \in Addrs |-> DeadEngine]
    /\ live = {}
    /\ badClose = FALSE
    /\ want = [h \in Slots |-> NoWant]
    /\ clean = [h \in Slots |-> TRUE]
    /\ last = Op("init", 0)
    /\ kept = NoKept
    /\ noneKinds = {}

\* the caller keeps the returned String (save) or goes on holding the older one
Keep(val, ptr, mem, lv, save) ==
    IF val.some /\ save
    THEN [held |-> TRUE, s |-> val.s, orig |-> Deref(mem, lv, ptr), src |-> ptr]
    ELSE kept

(***************************************************************************)
(* Cookie::open and Drop.                                                  *)
(***************************************************************************)
\* open(flags) into slot h; the engine returns the unused address a, or null
\* (a = 0) when it cannot allocate
open(h, flags, a) ==
    /\ handles[h] = NoCookie
    /\ a \in (Addrs \ live) \cup {0}
    /\ engine' = IF a = 0 THEN engine
                 ELSE [engine EXCEPT ![a] = NewEngine(open_flags(flags))]
    /\ live' = IF a = 0 THEN live ELSE live \cup {a}
    /\ handles' = [handles EXCEPT ![h] = open_result(a)]
    /\ want' = [want EXCEPT ![h] = IF ~handles'[h].some THEN NoWant
                                   ELSE [by |-> "open", flags |-> flags]]
    /\ clean' = [clean EXCEPT ![h] = TRUE]
    /\ last' = [Op("open", h) EXCEPT !.flags = flags, !.ok = a # 0]
    /\ UNCHANGED <<badClose, kept, noneKinds>>

\* the Cookie of slot h goes out of scope
drop(h) ==
    /\ handles[h].some
    /\ LET calls == drop_calls(handles[h].cookie)
           closed == { calls[i] : i \in DOMAIN calls }
       IN /\ badClose' = (badClose
                          \/ \E i \in DOMAIN calls :
                                \/ calls[i] \notin live
                                \/ \E j \in DOMAIN calls : j < i /\ calls[j] = calls[i])
          /\ live' = live \ closed
          /\ engine' = [a \in Addrs |-> IF a \in closed THEN DeadEngine ELSE engine[a]]
    /\ handles' = [handles EXCEPT ![h] = NoCookie]
    /\ want' = [want EXCEPT ![h] = NoWant]
    /\ clean' = [clean EXCEPT ![h] = TRUE]
    /\ last' = Op("drop", h)
    /\ UNCHANGED <<kept, noneKinds>>

(***************************************************************************)
(* Queries and the error channel.                                          *)
(***************************************************************************)
\* the flags the caller's calls have asked for on slot h
Asked(h) == want[h]

file(h, filename, keep, save) ==
    /\ handles[h].some
    /\ LET cookie == handles[h].cookie
       IN \E o \in QueryOutcomes(engine[cookie], filename, TRUE) :
             LET r == magic_file(engine[cookie], cookie, filename, o, keep)
                 mem == [engine EXCEPT ![cookie] = r.eng]
                 val == file_result(mem, live, r.ptr)
             IN /\ engine' = mem
                /\ last' = [Op("file", h) EXCEPT !.input = filename, !.val = val,
                               !.kind = o.kind, !.under = engine[cookie].flags,
                               !.want = Asked(h)]
                /\ kept' = Keep(val, r.ptr, mem, live, save)
                /\ noneKinds' = IF val.some THEN noneKinds ELSE noneKinds \cup {o.kind}
                /\ clean' = [clean EXCEPT ![h] = @ /\ val.some]
    /\ UNCHANGED <<handles, live, badClose, want>>

buffer(h, bytes, keep, save) ==
    /\ handles[h].some
    /\ LET cookie == handles[h].cookie
       IN \E o \in QueryOutcomes(engine[cookie], bytes, FALSE) :
             LET r == magic_buffer(engine[cookie], cookie, bytes, o, keep)
                 mem == [engine EXCEPT ![cookie] = r.eng]
                 val == buffer_result(mem, live, r.ptr)
             IN /\ engine' = mem
                /\ last' = [Op("buffer", h) EXCEPT !.input = bytes, !.val = val,
                               !.kind = o.kind, !.under = engine[cookie].flags,
                               !.want = Asked(h)]
                /\ kept' = Keep(val, r.ptr, mem, live, save)
                /\ noneKinds' = IF val.some THEN noneKinds ELSE noneKinds \cup {o.kind}
                /\ clean' = [clean EXCEPT ![h] = @ /\ val.some]
    /\ UNCHANGED <<handles, live, badClose, want>>

\* what error() returns on slot h in the current state
ErrorNow(h) ==
    LET cookie == handles[h].cookie
    IN error_result(engine, live, magic_error(engine[cookie], cookie))

error(h, save) ==
    /\ handles[h].some
    /\ LET cookie == handles[h].cookie
           s == magic_error(engine[cookie], cookie)
           val == error_result(engine, live, s)
       IN /\ last' = [Op("error", h) EXCEPT !.val = val]
          /\ kept' = Keep(val, s, engine, live, save)
    /\ UNCHANGED <<handles, engine, live, badClose, want, clean,
                   noneKinds>>

(***************************************************************************)
(* setflags and the database operations.                                   *)
(***************************************************************************)
setflags(h, flags) ==
    /\ handles[h].some
    /\ LET cookie == handles[h].cookie
       IN engine' = [engine EXCEPT
                       ![cookie] = magic_setflags(@, setflags_flags(flags))]
    /\ want' = [want EXCEPT ![h] = [by |-> "setflags", flags |-> flags]]
    /\ last' = [Op("setflags", h) EXCEPT !.flags = flags]
    /\ UNCHANGED <<handles, live, badClose, clean, kept, noneKinds>>

\* the frame of a database operation that left engine state e and returned ok
DbDone(op, h, filename, st, ok, e) ==
    /\ engine' = [engine EXCEPT ![handles[h].cookie] = e]
    /\ last' = [Op(op, h) EXCEPT !.input = filename, !.status = st, !.ok = ok]
    /\ clean' = [clean EXCEPT ![h] = @ /\ ok]
    /\ UNCHANGED <<handles, live, badClose, want, kept, noneKinds>>

check(h, filename, keep) ==
    /\ handles[h].some
    /\ \E st \in DbStatuses(filename) :
          DbDone("check", h, filename, st, check_result(st),
              magic_check(engine[handles[h].cookie], filename, st, keep))

compile(h, filename, keep) ==
    /\ handles[h].some
    /\ \E st \in DbStatuses(filename) :
          DbDone("compile", h, filename, st, compile_result(st),
              magic_compile(engine[handles[h].cookie], filename, st, keep))

list(h, filename, keep) ==
    /\ handles[h].some
    /\ \E st \in DbStatuses(filename) :
          DbDone("list", h, filename, st, list_result(st),
              magic_list(engine[handles[h].cookie], filename, st, keep))

load(h, filename, keep, keepdb) ==
    /\ handles[h].some
    /\ \E st \in DbStatuses(filename) :
          DbDone("load", h, filename, st, load_result(st),
              magic_load(engine[handles[h].cookie], filename, st, keep, keepdb))

(***************************************************************************)
(* The specification: the caller's calls in any order.                     *)
(***************************************************************************)
\* the handle the single-handle specifications drive
Main == {1}

\* one handle, every operation with every input; the caller keeps no String
Next ==
    \/ \E h \in Main, f \in FlagInputs, a \in Addrs \cup {0} : open(h, f, a)
    \/ \E h \in Main : drop(h)
    \/ \E h \in Main, p \in Paths, keep \in BOOLEAN : file(h, p, keep, FALSE)
    \/ \E h \in Main, b \in Buffers, keep \in BOOLEAN : buffer(h, b, keep, FALSE)
    \/ \E h \in Main : error(h, FALSE)
    \/ \E h \in Main, f \in FlagInputs : setflags(h, f)
    \/ \E h \in Main, p \in DbPaths, keep \in BOOLEAN : check(h, p, keep)
    \/ \E h \in Main, p \in DbPaths, keep \in BOOLEAN : compile(h, p, keep)
    \/ \E h \in Main, p \in DbPaths, keep \in BOOLEAN : list(h, p, keep)
    \/ \E h \in Main, p \in DbPaths, keep, keepdb \in BOOLEAN :
          load(h, p, keep, keepdb)

Spec == Init /\ [][Next]_vars

\* one handle, every operation; the caller may keep any String it is returned
NextStrings ==
    \/ \E h \in Main, f \in FlagInputs, a \in Addrs \cup {0} : open(h, f, a)
    \/ \E h \in Main : drop(h)
    \/ \E h \in Main, p \in Paths, save \in BOOLEAN : file(h, p, FALSE, save)
    \/ \E h \in Main, b \in Buffers, save \in BOOLEAN : buffer(h, b, FALSE, save)
    \/ \E h \in Main, save \in BOOLEAN : error(h, save)
    \/ \E h \in Main, f \in FlagInputs : setflags(h, f)
    \/ \E h \in Main, p \in DbPaths : check(h, p, FALSE)
    \/ \E h \in Main, p \in DbPaths : compile(h, p, FALSE)
    \/ \E h \in Main, p \in DbPaths : list(h, p, FALSE)
    \/ \E h \in Main, p \in DbPaths, keepdb \in BOOLEAN : load(h, p, FALSE, keepdb)

SpecStrings == Init /\ [][NextStrings]_vars

\* every slot and every address: handles are opened, loaded, queried and
\* dropped side by side
NextLife ==
    \/ \E h \in Slots, f \in {NONE, MIME_TYPE}, a \in Addrs \cup {0} : open(h, f, a)
    \/ \E h \in Slots : drop(h)
    \/ \E h \in Slots : load(h, GoodDb, FALSE, FALSE)
    \/ \E h \in Slots : file(h, GoodPath, FALSE, FALSE)
    \/ \E h \in Slots : error(h, FALSE)

SpecLife == Init /\ [][NextLife]_vars

(***************************************************************************)
(* Properties.                                                             *)
(***************************************************************************)
Held(h) == h \in Slots /\ handles[h].some
\* the engine instance of the Cookie in slot h
Eng(h) == engine[handles[h].cookie]
IsQuery(op) == op \in {"file", "buffer"}
IsDbOp(op) == op \in {"load", "compile", "check", "list"}
\* the bits the caller's latest open or setflags asks the engine to run under
AskedBits(w) ==
    IF w.by = "setflags" THEN BitsOf(w.flags)
    ELSE BitsOf(w.flags) \cup BitsOf(ERROR)
\* a text names a path when the path is one of its words
Names(t, p) == \E i \in DOMAIN t : t[i] = p

\* C1: after a successful open(f) the engine's active flags are exactly the
\* bits of f together with the ERROR bit, whether or not f contains ERROR.
C1_OpenUnitesError ==
    (last.op = "open" /\ last.ok) =>
        /\ Held(last.h)
        /\ BitsOf(Eng(last.h).flags) = BitsOf(last.flags) \cup BitsOf(ERROR)
C1_Witness ==
    /\ last.op = "open" /\ last.ok
    /\ last.flags = MIME_TYPE
    /\ Eng(last.h).flags = 528

\* C2: every engine instance magic_open returned is closed exactly once: an
\* instance is live exactly while one Cookie holds it, no two Cookies hold the
\* same instance, no Cookie holds null or a closed instance, and magic_close
\* is never called on null or on an instance already closed.
C2_CloseExactlyOnce ==
    /\ ~badClose
    /\ \A a \in Addrs :
          /\ a \in live <=> \E h \in Slots : handles[h].some /\ handles[h].cookie = a
          /\ Cardinality({ h \in Slots : handles[h].some /\ handles[h].cookie = a }) <= 1
    /\ \A h \in Slots : handles[h].some => handles[h].cookie \in live
    /\ \A h \in Slots : ~handles[h].some => handles[h].cookie = 0
C2_Witness ==
    /\ last.op = "drop"
    /\ Cardinality(live) = 1
    /\ \E h \in Slots : handles[h].some /\ h # last.h /\ engine[handles[h].cookie].db

\* C3 as stated: the value a query returns tells the engine's outcome, so
\* all queries that returned None had one and the same outcome, and a query
\* that returned Some had the outcome Description.
C3_ValueTellsOutcome ==
    /\ \A k1, k2 \in noneKinds : k1 = k2
    /\ (IsQuery(last.op) /\ last.val.some) => last.kind = "Description"
\* C3 as amended: a query returns one of two values: Some(description)
\* exactly when the engine produced a description, and None both when the
\* engine found nothing and when it failed; after a failed query the
\* diagnostic is pending, so the next error() returns Some.
C3_TwoOutcomes ==
    /\ noneKinds \subseteq {"NoMatch", "Error"}
    /\ IsQuery(last.op) =>
          /\ last.val.some <=> last.kind = "Description"
          /\ last.val.some => StrValue(engine, live, last.val.s) # NoText
          /\ last.kind = "Error" => ErrorNow(last.h).some
C3_Witness ==
    /\ last.op = "file" /\ ~last.val.some /\ last.kind = "NoMatch"
    /\ noneKinds = {"NoMatch", "Error"}

\* C4: setflags replaces the active flags: the engine's flags are exactly
\* those of the latest setflags, or those of open with ERROR when there was
\* no setflags; every query is evaluated under them and its description is
\* the one for them; a String returned earlier is unchanged by setflags.
C4_SetflagsReplaces ==
    /\ \A h \in Slots : handles[h].some => BitsOf(Eng(h).flags) = AskedBits(want[h])
    /\ IsQuery(last.op) =>
          /\ BitsOf(last.under) = AskedBits(last.want)
          /\ last.val.some =>
                StrValue(engine, live, last.val.s) = Describe(last.input, last.want.flags)
    /\ (last.op = "setflags" /\ kept.held) =>
          StrValue(engine, live, kept.s) = kept.orig
C4_Witness ==
    /\ last.op = "file" /\ last.val.some
    /\ last.want = [by |-> "setflags", flags |-> MIME_TYPE]
    /\ last.val.s.text = <<"desc", GoodPath, "mime-type">>
    /\ kept.held /\ kept.orig = <<"desc", GoodPath, "text">>

\* C5 as stated: on any open Handle with a database loaded, file(p) for a
\* missing p returns None and the next error() returns a non-empty
\* diagnostic that names p.
C5_MissingPathFails ==
    (last.op = "file" /\ ~Exists(last.input) /\ Eng(last.h).db) =>
        /\ ~last.val.some
        /\ ErrorNow(last.h).some
        /\ ErrorNow(last.h).s.text # NoText
        /\ Names(ErrorNow(last.h).s.text, last.input)
\* C5 as amended: the same on a Handle whose active flags contain ERROR.
C5_MissingPathFailsUnderError ==
    (/\ last.op = "file" /\ ~Exists(last.input) /\ Eng(last.h).db
     /\ BitsOf(ERROR) \subseteq BitsOf(last.under)) =>
        /\ ~last.val.some
        /\ ErrorNow(last.h).some
        /\ ErrorNow(last.h).s.text # NoText
        /\ Names(ErrorNow(last.h).s.text, last.input)
C5_Witness ==
    /\ last.op = "file" /\ last.input = MissingPath /\ Eng(last.h).db
    /\ last.under = 512
    /\ ~last.val.some
    /\ ErrorNow(last.h) = Some(Owned(CannotStat(MissingPath)))

\* C6: load, compile, check and list return true exactly when the engine's
\* status is 0, and after one that returned false the next error() returns
\* Some.
C6_DbStatus ==
    IsDbOp(last.op) =>
        /\ last.ok <=> last.status = 0
        /\ ~last.ok => ErrorNow(last.h).some /\ ErrorNow(last.h).s.text # NoText
C6_Witness ==
    /\ last.op = "load" /\ last.status = 1 /\ ~last.ok
    /\ ErrorNow(last.h).some

\* C7, first half: on a Handle on which every operation since open
\* succeeded (database operations that returned true, setflags, queries that
\* returned a description), error() returns None.
C7_CleanNoDiagnostic ==
    /\ \A h \in Slots : (handles[h].some /\ clean[h]) => ~ErrorNow(h).some
    /\ (last.op = "error" /\ clean[last.h]) => ~last.val.some
\* C7, second half: a step that is a call of error() leaves the Cookies and
\* the engine instances as they were.
C7_ErrorReadsOnly ==
    [][last'.op = "error" => (handles' = handles /\ engine' = engine /\ live' = live
                              /\ want' = want)]_vars
\* C7: both halves: error() is None on a Handle without a failure, and
\* error() changes nothing.
C7_ErrorNoneAndPure == []C7_CleanNoDiagnostic /\ C7_ErrorReadsOnly
C7_Witness ==
    /\ last.op = "error" /\ clean[last.h] /\ ~last.val.some
    /\ Eng(last.h).db /\ Eng(last.h).out # NoText
    /\ want[last.h].by = "setflags"

\* C8: MIME has exactly the bits of MIME_TYPE and MIME_ENCODING, and
\* NO_CHECK_BUILTIN exactly the bits of its eight constituents, so not the
\* bit of NO_CHECK_SOFT; a Handle set to one of the two runs under exactly
\* those bits.
C8_Aliases ==
    /\ BitsOf(MIME) = BitsOf(MIME_TYPE) \cup BitsOf(MIME_ENCODING)
    /\ BitsOf(NO_CHECK_BUILTIN) =
          UNION { BitsOf(f) : f \in {NO_CHECK_COMPRESS, NO_CHECK_TAR, NO_CHECK_APPTYPE,
                                     NO_CHECK_ELF, NO_CHECK_TEXT, NO_CHECK_CDF,
                                     NO_CHECK_TOKENS, NO_CHECK_ENCODING} }
    /\ BitsOf(NO_CHECK_BUILTIN) \cap BitsOf(NO_CHECK_SOFT) = {}
    /\ Cardinality(BitsOf(MIME)) = 2
    /\ Cardinality(BitsOf(NO_CHECK_BUILTIN)) = 8
    /\ \A h \in Slots : (handles[h].some /\ want[h].by = "setflags") =>
          /\ want[h].flags = MIME =>
                BitsOf(Eng(h).flags) = BitsOf(MIME_TYPE) \cup BitsOf(MIME_ENCODING)
          /\ want[h].flags = NO_CHECK_BUILTIN =>
                BitsOf(Eng(h).flags) = {12, 13, 15, 16, 17, 18, 20, 21}
C8_Witness ==
    /\ last.op = "setflags" /\ last.flags = NO_CHECK_BUILTIN
    /\ BitsOf(Eng(last.h).flags) = {12, 13, 15, 16, 17, 18, 20, 21}

\* C9 as stated: the ERROR bit is set in the active flags of every open
\* Handle, whatever calls were made on it.
C9_ErrorAlwaysSet ==
    \A h \in Slots : handles[h].some => BitsOf(ERROR) \subseteq BitsOf(Eng(h).flags)
\* C9 as amended: the ERROR bit is set from open until the first setflags;
\* after setflags(f) it is set exactly when f contains ERROR; no other
\* operation changes it.
C9_ErrorSetUntilSetflags ==
    \A h \in Slots : handles[h].some =>
        /\ want[h].by = "open" => BitsOf(ERROR) \subseteq BitsOf(Eng(h).flags)
        /\ want[h].by = "setflags" =>
              (BitsOf(ERROR) \subseteq BitsOf(Eng(h).flags)
                 <=> BitsOf(ERROR) \subseteq BitsOf(want[h].flags))
C9_Witness ==
    /\ IsQuery(last.op) /\ handles[last.h].some
    /\ want[last.h] = [by |-> "open", flags |-> NONE]
    /\ Eng(last.h).db /\ Eng(last.h).diag # NoText
    /\ Eng(last.h).flags = ERROR

\* C10: a String returned by file, buffer or error owns a copy of the text
\* the engine's buffer held when the call returned: its value stays that
\* text whatever is done to the Handle afterwards.
C10_ReturnedStringsOwned ==
    kept.held =>
        /\ kept.s.kind = "owned"
        /\ StrValue(engine, live, kept.s) = kept.orig
C10_Witness ==
    /\ kept.held /\ kept.orig # NoText
    /\ kept.src.addr \in live
    /\ Deref(engine, live, kept.src) # kept.orig
    /\ StrValue(engine, live, kept.s) = kept.orig

=============================================================================
